---- MODULE Spec2Model ----
(***************************************************************************)
(* Model of the Skybrush binary show file container and of the trajectory  *)
(* segment encoder (src/src/flockwave/server/show/formats.py).             *)
(*                                                                         *)
(* A stream is a sequence of bytes (0..255) with a cursor. An instance of  *)
(* SkybrushBinaryShowFile is a record holding the stream and the object's  *)
(* fields; every method is an operator from such a record to the record    *)
(* after the call, with the exception it raised (if any) in field exc.     *)
(***************************************************************************)
EXTENDS Integers, Sequences, FiniteSets, TLC

\* Python's None for integer-valued fields (_version, offsets, loader offset).
None == 0 - 1

Min(a, b) == IF a < b THEN a ELSE b

\* ------------------------------------------------------------------------
\* Bounds of the model
\* ------------------------------------------------------------------------
\* most blocks appended by add_block in one behaviour
MaxBlocks == 2
\* most invocations of one block's loader that are followed
MaxCalls == 2
\* the points of a trajectory segment, its start point included
MaxPoints == 8

\* ------------------------------------------------------------------------
\* File format constants
\* ------------------------------------------------------------------------
\* b"skyb"
SKYBRUSH_BINARY_FILE_MARKER == <<115, 107, 121, 98>>

\* _SKYBRUSH_BINARY_FILE_HEADER[version]
SKYBRUSH_BINARY_FILE_HEADER(v) ==
    IF v = 1 THEN SKYBRUSH_BINARY_FILE_MARKER \o <<1>>
    ELSE IF v = 2 THEN SKYBRUSH_BINARY_FILE_MARKER \o <<2, 1, 0, 0, 0, 0>>
    ELSE <<>>

\* SkybrushBinaryFileFeatures.CRC32
CRC32 == 1
\* size of Struct("<BH")
HeaderStructSize == 3
\* add_block: bodies of this length and above are rejected
BodyLengthLimit == 65536
\* window of the checksum loop
ReadChunk == 4096

\* features & SkybrushBinaryFileFeatures.CRC32
HasCRC32(features) == features % 2 = CRC32

\* ------------------------------------------------------------------------
\* The backing stream (self._fp): BytesIO when seekable, a pipe otherwise
\* ------------------------------------------------------------------------
\* s.data and s.val hold the value returned by the last call.

fp_seek(s, offset) ==
    IF s.seekable THEN [s EXCEPT !.pos = offset]
    ELSE [s EXCEPT !.exc = "UnsupportedOperation"]

\* seek(0, SEEK_END)
fp_seek_end(s) == fp_seek(s, Len(s.file))

fp_tell(s) == [s EXCEPT !.val = s.pos]

fp_read(s, n) ==
    LET avail == IF s.pos >= Len(s.file) THEN 0 ELSE Min(n, Len(s.file) - s.pos)
    IN  [s EXCEPT !.data = SubSeq(s.file, s.pos + 1, s.pos + avail),
                  !.pos = s.pos + avail]

\* write at the cursor: overwrites, extends, and pads with zeros a gap
\* between the end of the file and the cursor
fp_write(s, bytes) ==
    LET n == Len(bytes)
        before == IF s.pos <= Len(s.file) THEN SubSeq(s.file, 1, s.pos)
                  ELSE s.file \o [i \in 1..(s.pos - Len(s.file)) |-> 0]
        after == SubSeq(s.file, s.pos + n + 1, Len(s.file))
    IN  [s EXCEPT !.file = before \o bytes \o after,
                  !.pos = s.pos + n]

\* Each method is written as a chain of steps, one operator per step, each
\* taking the result of the step before it.

\* _read_exactly: the check of the number of bytes read
read_exactly_check(s2, length) ==
    IF Len(s2.data) # length THEN [s2 EXCEPT !.exc = "IOError"] ELSE s2

\* _read_exactly: the read, once the optional seek is done
read_exactly_read(s1, length) ==
    IF s1.exc # "none" THEN s1
    ELSE read_exactly_check(fp_read(s1, length), length)

\* _read_exactly(fp, length, offset)
read_exactly(s, length, offset) ==
    read_exactly_read(IF offset # None THEN fp_seek(s, offset) ELSE s, length)

\* ------------------------------------------------------------------------
\* Checksum primitive (flockwave.server.show.utils.crc32_mavftp)
\* ------------------------------------------------------------------------
\* A streaming checksum: (bytes, running state) -> running state, kept
\* within 24 bits so that every intermediate value fits a 32-bit integer.
\* The multiplier is odd and the modulus a power of two, so that two byte
\* strings of equal length that differ in one byte have different checksums.
CrcModulus == 16777216

RECURSIVE crc32(_, _)
crc32(data, crc) ==
    IF data = <<>> THEN crc
    ELSE crc32(Tail(data), (crc * 33 + Head(data)) % CrcModulus)

\* int.to_bytes(4, "little", signed=False)
to_bytes4(v) ==
    << v % 256, (v \div 256) % 256, (v \div 65536) % 256, (v \div 16777216) % 256 >>

\* ------------------------------------------------------------------------
\* SkybrushBinaryShowFile
\* ------------------------------------------------------------------------
\* s.parses counts the header parses (_expect_header calls) and
\* s.validations counts the validate_checksum() calls made during the
\* operation in progress (an observation, never read by the methods).

\* the features property
features_prop(s) ==
    IF s.version = None THEN [s EXCEPT !.exc = "HeaderNotRead"]
    ELSE [s EXCEPT !.val = s.features]

\* _expect_header: the version byte, returned in val
expect_header_version(s2) ==
    IF s2.data = <<>> THEN [s2 EXCEPT !.exc = "TypeError"]
    ELSE [s2 EXCEPT !.val = s2.data[1]]

\* _expect_header: the marker
expect_header_marker(s1) ==
    IF s1.data # SKYBRUSH_BINARY_FILE_MARKER THEN [s1 EXCEPT !.exc = "BadHeader"]
    ELSE expect_header_version(fp_read(s1, 1))

\* _expect_header
expect_header(s) ==
    expect_header_marker(fp_read([s EXCEPT !.parses = s.parses + 1], 4))

\* _rewind: the offsets of a file with a checksum, at is the offset of the
\* checksum and s1 the stream after its four bytes
rewind_crc_offsets(s1, at) ==
    [s1 EXCEPT !.start_of_crc_bytes = at, !.start_of_first_block = s1.pos]

\* second half of _rewind, once self._features is known
rewind_offsets(s) ==
    IF HasCRC32(s.features) THEN rewind_crc_offsets(fp_read(s, 4), s.pos)
    ELSE [s EXCEPT !.start_of_crc_bytes = None,
                   !.start_of_first_block = s.pos]

\* _rewind: the flags byte of a version 2 header
rewind_flags(s3) ==
    IF s3.data = <<>> THEN [s3 EXCEPT !.exc = "IndexError"]
    ELSE rewind_offsets([s3 EXCEPT !.features = s3.data[1]])

\* _rewind: the features, once self._version is stored
rewind_features(s2) ==
    IF s2.version = 1 THEN rewind_offsets([s2 EXCEPT !.features = 0])
    ELSE IF s2.version = 2 THEN rewind_flags(fp_read(s2, 1))
    ELSE [s2 EXCEPT !.exc = "UnsupportedVersion"]

\* _rewind: self._version = await self._expect_header()
rewind_version(s1) ==
    IF s1.exc # "none" THEN s1
    ELSE rewind_features([s1 EXCEPT !.version = s1.val])

\* _rewind: the header parse, after seek(0)
rewind_parse(s0) ==
    IF s0.exc # "none" THEN s0 ELSE rewind_version(expect_header(s0))

\* rewind_cached parsing the header again
rewind_reparsed(s) == rewind_parse(fp_seek(s, 0))

\* _rewind with self._start_of_first_block known
rewind_cached(s) == fp_seek(s, s.start_of_first_block)

\* _rewind
rewind(s) ==
    IF s.start_of_first_block = None THEN rewind_parse(fp_seek(s, 0))
    ELSE rewind_cached(s)

\* Struct("<BH").pack(type, length)
header_pack(type, length) == << type, length % 256, (length \div 256) % 256 >>

\* header_length reading the length field as big-endian
header_length_be(data) == 256 * data[2] + data[3]

\* Struct("<BH").unpack(data): the type is data[1], this is the length
header_length(data) == data[2] + 256 * data[3]

\* body_too_large refusing a body of 65535 bytes as well
body_too_large_early(body) == Len(body) >= BodyLengthLimit - 1

\* the size check of add_block
body_too_large(body) == Len(body) >= BodyLengthLimit

\* add_block_seek without the seek to the end
add_block_no_seek(s) == s

\* where add_block writes: the end of a seekable stream, else the cursor
add_block_seek(s) == IF s.seekable THEN fp_seek_end(s) ELSE s

\* add_block: the size check and the two writes
add_block_write(s1, type, body) ==
    IF body_too_large(body) THEN [s1 EXCEPT !.exc = "ValueError"]
    ELSE fp_write(fp_write(s1, header_pack(type, Len(body))), body)

\* add_block(type, body)
add_block(s, type, body) == add_block_write(add_block_seek(s), type, body)

\* finally_seek leaving the cursor where the try block left it
finally_seek_skipped(s, position) == s

\* try: ... finally: await self._fp.seek(position)
finally_seek(s, position) ==
    [fp_seek([s EXCEPT !.exc = "none"], position) EXCEPT !.exc = s.exc]

\* crc_feed leaving the window out of the checksum
crc_feed_dropped(data, crc) == crc

\* "if block: expected_crc = crc32(block, expected_crc)"
crc_feed(data, crc) == IF data # <<>> THEN crc32(data, crc) ELSE crc

RECURSIVE crc_rest(_, _)
\* the loop of _get_expected_crc32: a window was read and fed
crc_rest_fed(s1, c1) ==
    IF Len(s1.data) < ReadChunk THEN [s1 EXCEPT !.val = c1]
    ELSE crc_rest(s1, c1)

\* the loop of _get_expected_crc32: a window was read
crc_rest_window(s1, crc) == crc_rest_fed(s1, crc_feed(s1.data, crc))

\* the loop of _get_expected_crc32 over the rest of the stream; the
\* running checksum is returned in val
crc_rest(s, crc) == crc_rest_window(fp_read(s, ReadChunk), crc)

\* crc_placeholder feeding the stored field to the checksum
crc_placeholder_stored(stored) == stored

\* what _get_expected_crc32 feeds the checksum in place of the stored field
crc_placeholder(stored) == <<0, 0, 0, 0>>

\* _get_expected_crc32: the stored field was skipped, c1 is the checksum
\* of the header before it
expected_crc32_rest(s2, c1) ==
    IF s2.exc # "none" THEN s2
    ELSE crc_rest(s2, crc32(crc_placeholder(s2.data), c1))

\* _get_expected_crc32: the header before the field was read
expected_crc32_field(s1) ==
    IF s1.exc # "none" THEN s1
    ELSE expected_crc32_rest(read_exactly(s1, 4, None), crc32(s1.data, 0))

\* the try block of _get_expected_crc32
expected_crc32_body(s) ==
    expected_crc32_field(read_exactly(s, s.start_of_crc_bytes, 0))

\* _get_expected_crc32: the value returned
expected_crc32_bytes(s1) ==
    IF s1.exc # "none" THEN s1 ELSE [s1 EXCEPT !.data = to_bytes4(s1.val)]

\* _get_expected_crc32: the four bytes are returned in data
get_expected_crc32(s) ==
    LET f == features_prop(s)
    IN  IF f.exc # "none" THEN f
        ELSE IF ~HasCRC32(f.val) THEN [s EXCEPT !.data = <<0, 0, 0, 0>>]
        ELSE IF ~s.seekable THEN [s EXCEPT !.exc = "NotSeekable"]
        ELSE expected_crc32_bytes(finally_seek(expected_crc32_body(s), s.pos))

\* crc_matches accepting any stored bytes
crc_matches_always(observed, expected) == TRUE

\* the comparison of validate_checksum
crc_matches(observed, expected) == observed = expected

\* validate_checksum: the stored bytes were read
validate_compare(o, expected) ==
    IF o.exc # "none" THEN o
    ELSE IF ~crc_matches(o.data, expected) THEN [o EXCEPT !.exc = "CRCError"]
    ELSE [o EXCEPT !.checksum_validated = TRUE]

\* validate_checksum: the expected checksum was computed
validate_observe(e) ==
    IF e.exc # "none" THEN e
    ELSE validate_compare(
             finally_seek(read_exactly(e, 4, e.start_of_crc_bytes), e.pos),
             e.data)

\* validate_checksum, the call counted
validate_counted(s) ==
    LET f == features_prop(s)
    IN  IF f.exc # "none" THEN f
        ELSE IF ~HasCRC32(f.val) THEN s
        ELSE validate_observe(get_expected_crc32(s))

\* validate_checksum
validate_checksum(s0) ==
    validate_counted([s0 EXCEPT !.validations = s0.validations + 1])

\* _update_crc32: the expected checksum was computed
update_crc32_write(e) ==
    IF e.exc # "none" THEN e
    ELSE finally_seek(fp_write(fp_seek(e, e.start_of_crc_bytes), e.data), e.pos)

\* _update_crc32
update_crc32(s) ==
    LET f == features_prop(s)
    IN  IF f.exc # "none" THEN f
        ELSE IF ~HasCRC32(f.val) THEN s
        ELSE update_crc32_write(get_expected_crc32(s))

\* finalize_rewind without the finally clause
finalize_rewind_unrestored(s) == rewind(s)

\* the header parse of finalize, the cursor restored afterwards
finalize_rewind(s) == finally_seek(rewind(s), s.pos)

\* "if not self._version": None or 0
version_unknown(s) == s.version = None \/ s.version = 0

\* finalize: the header was parsed
finalize_update(r) == IF r.exc # "none" THEN r ELSE update_crc32(r)

\* finalize
finalize(s) ==
    IF version_unknown(s)
    THEN IF ~s.seekable THEN [s EXCEPT !.exc = "NotSeekable"]
         ELSE finalize_update(finalize_rewind(s))
    ELSE update_crc32(s)

\* ------------------------------------------------------------------------
\* SkybrushBinaryFileBlock
\* ------------------------------------------------------------------------
\* An optional value is a sequence of length 0 (None) or 1. A loader is the
\* partial(_read_exactly, fp, length, offset=offset) built by blocks().
\* calls counts the invocations of the loader.

\* SkybrushBinaryFileBlock.__init__ with a callable
Block(type, length, offset) ==
    [type |-> type, loader |-> << [length |-> length, offset |-> offset] >>,
     contents |-> <<>>, calls |-> 0]

\* SkybrushBinaryFileBlock.__init__ with bytes or None (contents is <<>>
\* for None)
ReadyBlock(type, contents) ==
    [type |-> type, loader |-> <<>>, contents |-> contents, calls |-> 0]

\* the consumed property
consumed(b) == b.loader = <<>>

\* loader_after_read keeping the loader
loader_kept(b) == b.loader

\* what read() does with the loader once it has returned
loader_after_read(b) == <<>>

\* read(): the loader was invoked, r is the stream after it
block_loaded(r, b) ==
    IF r.exc # "none"
    THEN [s |-> r, b |-> [b EXCEPT !.calls = @ + 1]]
    ELSE [s |-> r,
          b |-> [b EXCEPT !.contents = << r.data >>,
                          !.loader = loader_after_read(b),
                          !.calls = @ + 1]]

\* read(): the stream after the call in s, the block in b; the value
\* returned is b.contents
block_read(s, b) ==
    IF b.contents = <<>> /\ b.loader # <<>>
    THEN block_loaded(read_exactly(s, b.loader[1].length, b.loader[1].offset), b)
    ELSE [s |-> s, b |-> b]

\* ------------------------------------------------------------------------
\* blocks(): an asynchronous generator
\* ------------------------------------------------------------------------
\* m.s is the instance, m.gen the generator's frame, m.blocks the blocks it
\* has yielded so far (the last one is the generator's local "block").
\* gen.pc: "created" (no code has run yet), "suspended" (at a yield),
\* "done" (exhausted), "failed" (ended by an exception), "none".

\* gen.via names the method the caller iterates with, gen.header the
\* number of bytes the last header read returned (observations).

NoGen == [pc |-> "none", rewind |-> "None", validate |-> "None",
          seekable |-> FALSE, end_of_block |-> 0, via |-> "blocks",
          header |-> None]

\* rewind=None: rewind iff the stream is seekable
default_rewind(s) == s.seekable

\* default_validate validating every time
default_validate_always(s) == TRUE

\* validate=None: validate iff the checksum was never validated
default_validate(s) == ~s.checksum_validated

\* blocks(): "if validate is None: ...; if validate: ..."
gen_validate(s1, validate) ==
    IF s1.exc # "none" THEN s1
    ELSE IF (IF validate = "None" THEN default_validate(s1)
             ELSE validate = "True")
         THEN validate_checksum(s1)
         ELSE s1

\* blocks(): "if rewind is None: ...; if rewind: ..."
gen_rewind(s, rw) ==
    IF (IF rw = "None" THEN default_rewind(s) ELSE rw = "True") THEN rewind(s)
    ELSE s

\* the code of blocks() before its loop
gen_prologue(m) ==
    [m EXCEPT !.s = gen_validate(gen_rewind(m.s, m.gen.rewind), m.gen.validate),
              !.gen.seekable = m.s.seekable]

\* blocks() after a yield on a pipe: the body of block n was read
gen_consume(m, n, r) == [m EXCEPT !.s = r.s, !.blocks[n] = r.b]

\* resume_seek leaving the cursor where the caller left it
resume_seek_skipped(m) == m

\* blocks() after a yield on a seekable stream: seek(end_of_block)
resume_seek(m) == [m EXCEPT !.s = fp_seek(m.s, m.gen.end_of_block)]

\* the code of blocks() after a yield
gen_resume(m) ==
    IF m.gen.seekable THEN resume_seek(m)
    ELSE IF ~consumed(m.blocks[Len(m.blocks)])
         THEN gen_consume(m, Len(m.blocks),
                          block_read(m.s, m.blocks[Len(m.blocks)]))
         ELSE m

\* end_of_stream taking a partial header for the end of the stream
end_of_stream_partial(data) == Len(data) < HeaderStructSize

\* "if not data": end of stream
end_of_stream(data) == data = <<>>

\* one turn of the loop of blocks(): the header was read
gen_header(m, s1) ==
    LET length == header_length(s1.data)
        offset == IF m.gen.seekable THEN s1.pos ELSE None
    IN  IF end_of_stream(s1.data)
        THEN [m EXCEPT !.s = s1, !.gen.pc = "done",
                       !.gen.header = Len(s1.data)]
        ELSE IF Len(s1.data) # HeaderStructSize
             THEN [m EXCEPT !.s = [s1 EXCEPT !.exc = "StructError"],
                            !.gen.header = Len(s1.data)]
        ELSE [m EXCEPT !.s = s1,
                       !.gen.pc = "suspended",
                       !.gen.header = Len(s1.data),
                       !.gen.end_of_block = s1.pos + length,
                       !.blocks = Append(m.blocks, Block(s1.data[1], length, offset))]

\* one turn of the loop of blocks(), up to the yield
gen_loop(m) == gen_header(m, fp_read(m.s, HeaderStructSize))

\* __anext__: the generator ends with the exception it raised
gen_end(m2) ==
    IF m2.s.exc # "none" THEN [m2 EXCEPT !.gen.pc = "failed"] ELSE m2

\* __anext__: the loop is entered unless the code before it raised
gen_turn(m1) == IF m1.s.exc # "none" THEN m1 ELSE gen_loop(m1)

\* __anext__: run the generator to its next yield, its end or an exception
gen_next(m) ==
    gen_end(gen_turn(IF m.gen.pc = "created" THEN gen_prologue(m)
                     ELSE gen_resume(m)))

\* calling blocks(rewind, validate) runs no code of its body
blocks_call(s, rw, va) ==
    [s |-> s, gen |-> [NoGen EXCEPT !.pc = "created", !.rewind = rw, !.validate = va],
     blocks |-> <<>>]

RECURSIVE gen_exhaust(_)
gen_exhaust(m) ==
    IF m.gen.pc \in {"done", "failed"} THEN m ELSE gen_exhaust(gen_next(m))

\* read_all_blocks: the list is returned only when the iteration ends
\* without an exception
read_all_result(m) ==
    IF m.gen.pc = "failed" THEN [m EXCEPT !.blocks = <<>>] ELSE m

\* read_all_blocks(rewind, validate)
read_all_blocks(s, rw, va) ==
    read_all_result(
        gen_exhaust([blocks_call(s, rw, va) EXCEPT !.gen.via = "read_all_blocks"]))

\* ------------------------------------------------------------------------
\* State
\* ------------------------------------------------------------------------
VARIABLES
    file,                  \* the bytes of the backing stream
    pos,                   \* its cursor
    seekable,              \* self._fp.seekable()
    version,               \* self._version
    features,              \* self._features
    start_of_crc_bytes,    \* self._start_of_crc_bytes
    start_of_first_block,  \* self._start_of_first_block
    checksum_validated,    \* self._checksum_validated
    gen,                   \* the frame of the caller's blocks() generator
    blocks,                \* the blocks the caller received from it
    made,                  \* a block the caller built from ready contents
    written,               \* (type, body) of the blocks stored, in order
    intact,                \* file = a header followed by exactly "written"
    finalized,             \* finalize() succeeded on a CRC32 file, no write since
    reopened,              \* the instance was opened on bytes written earlier
    tampered,              \* offset of the byte changed behind the instance's back
    last,                  \* the last call: its name, outcome, observations
    scale,                 \* SegmentEncoder(scale): 1000 / self._scale
    segments,              \* the trajectory segments the caller holds
    encoded                \* the last call of the encoder: arguments and outcome

vars == << file, pos, seekable, version, features, start_of_crc_bytes,
           start_of_first_block, checksum_validated, gen, blocks, made,
           written, intact, finalized, reopened, tampered, last, scale,
           segments, encoded >>

\* the instance as the methods see it
Self ==
    [file |-> file, pos |-> pos, seekable |-> seekable, version |-> version,
     features |-> features, start_of_crc_bytes |-> start_of_crc_bytes,
     start_of_first_block |-> start_of_first_block,
     checksum_validated |-> checksum_validated,
     exc |-> "none", data |-> <<>>, val |-> 0, validations |-> 0,
     parses |-> 0]

\* the instance after a call
Commit(s) ==
    /\ file' = s.file
    /\ pos' = s.pos
    /\ seekable' = s.seekable
    /\ version' = s.version
    /\ features' = s.features
    /\ start_of_crc_bytes' = s.start_of_crc_bytes
    /\ start_of_first_block' = s.start_of_first_block
    /\ checksum_validated' = s.checksum_validated

\* no call was made yet
NoCall ==
    [op |-> "init", exc |-> "none", validations |-> 0, parses |-> 0, arg |-> 0]

\* what the caller observes of a call: the exception raised, the number of
\* checksum validations and of header parses that ran, and for add_block
\* the length of the body
Outcome(op, s) ==
    [op |-> op, exc |-> s.exc, validations |-> s.validations,
     parses |-> s.parses, arg |-> 0]

\* ------------------------------------------------------------------------
\* Inputs
\* ------------------------------------------------------------------------
\* SkybrushBinaryFormatBlockType.COMMENT, .TRAJECTORY
\* (type, body) of the blocks added: a COMMENT and an empty TRAJECTORY
Writes == { [type |-> 3, body |-> <<65>>], [type |-> 1, body |-> <<>>] }
\* (rewind, validate) given to blocks() and read_all_blocks()
GenArgs == { <<"None", "None">>, <<"None", "False">>, <<"False", "None">>,
             <<"True", "True">> }

RECURSIVE encode_blocks(_)
encode_blocks(bs) ==
    IF bs = <<>> THEN <<>>
    ELSE header_pack(Head(bs).type, Len(Head(bs).body)) \o Head(bs).body
         \o encode_blocks(Tail(bs))

\* from_bytes(data=None, version=v) and create_in_memory(v), and
\* from_bytes(data) on a version 2 header that declares no feature
NewFiles ==
    { [data |-> SKYBRUSH_BINARY_FILE_HEADER(v), blocks |-> <<>>, intact |-> TRUE,
       finalized |-> FALSE] : v \in {1, 2} }
    \cup
    { [data |-> SKYBRUSH_BINARY_FILE_MARKER \o <<2, 0>>, blocks |-> <<>>,
       intact |-> TRUE, finalized |-> FALSE] }

\* the blocks of the files that are given to be read
GivenBlocks ==
    << [type |-> 3, body |-> <<66, 67>>], [type |-> 1, body |-> <<>>] >>

\* an instance right after __init__ on a BytesIO holding data
Opened(data) ==
    [file |-> data, pos |-> 0, seekable |-> TRUE, version |-> None,
     features |-> 0, start_of_crc_bytes |-> None, start_of_first_block |-> None,
     checksum_validated |-> FALSE,
     exc |-> "none", data |-> <<>>, val |-> 0, validations |-> 0,
     parses |-> 0]

RECURSIVE add_blocks(_, _)
add_blocks(s, bs) ==
    IF bs = <<>> THEN s
    ELSE add_blocks(add_block(s, Head(bs).type, Head(bs).body), Tail(bs))

\* the bytes of a version 2 file with the given blocks, after finalize()
FinalizedFile(bs) ==
    finalize(add_blocks(Opened(SKYBRUSH_BINARY_FILE_HEADER(2)), bs)).file

\* from_bytes(data): a finalized file, the same file with a checksum field
\* that was never updated, a version 2 file that declares no feature, a
\* version 1 file whose last block is cut short, one that ends within a
\* block header, a bad marker, unsupported versions
GivenFiles ==
    { [data |-> FinalizedFile(GivenBlocks),
       blocks |-> GivenBlocks, intact |-> TRUE, finalized |-> TRUE],
      [data |-> SKYBRUSH_BINARY_FILE_HEADER(2) \o encode_blocks(GivenBlocks),
       blocks |-> GivenBlocks, intact |-> TRUE, finalized |-> FALSE],
      [data |-> SKYBRUSH_BINARY_FILE_MARKER \o <<2, 0>> \o encode_blocks(GivenBlocks),
       blocks |-> GivenBlocks, intact |-> TRUE, finalized |-> FALSE],
      [data |-> SKYBRUSH_BINARY_FILE_HEADER(1) \o <<1, 0, 0, 3, 2, 0, 65>>,
       blocks |-> <<>>, intact |-> FALSE, finalized |-> FALSE],
      [data |-> SKYBRUSH_BINARY_FILE_HEADER(1) \o <<3, 1, 0, 65, 1, 0>>,
       blocks |-> <<>>, intact |-> FALSE, finalized |-> FALSE],
      [data |-> <<115, 107, 121, 99, 1>>, blocks |-> <<>>, intact |-> FALSE,
       finalized |-> FALSE],
      [data |-> SKYBRUSH_BINARY_FILE_MARKER \o <<3>>, blocks |-> <<>>,
       intact |-> FALSE, finalized |-> FALSE],
      [data |-> SKYBRUSH_BINARY_FILE_MARKER \o <<0>>, blocks |-> <<>>,
       intact |-> FALSE, finalized |-> FALSE] }

\* what a pipe delivers after its header: blocks written by another party
PipeBlocks ==
    { <<>>,
      << [type |-> 3, body |-> <<65>>] >>,
      GivenBlocks }

PipeFiles ==
    { [data |-> SKYBRUSH_BINARY_FILE_HEADER(1) \o encode_blocks(bs),
       blocks |-> bs, intact |-> TRUE, finalized |-> FALSE] : bs \in PipeBlocks }
    \cup
    { [data |-> SKYBRUSH_BINARY_FILE_HEADER(1) \o <<3, 2, 0, 65>>,
       blocks |-> <<>>, intact |-> FALSE, finalized |-> FALSE] }

\* the encoder was not called yet
NoEncoding == [op |-> "init", exc |-> "none"]

\* the instance right after __init__(fp), the cursor of fp at start
InitInstance(f, sk, start) ==
    /\ file = f.data
    /\ pos = start
    /\ seekable = sk
    /\ version = None
    /\ features = 0
    /\ start_of_crc_bytes = None
    /\ start_of_first_block = None
    /\ checksum_validated = FALSE
    /\ gen = NoGen
    /\ blocks = <<>>
    /\ made = <<>>
    /\ written = f.blocks
    /\ intact = f.intact
    /\ finalized = f.finalized
    /\ reopened = FALSE
    /\ tampered = None
    /\ last = NoCall

\* no trajectory is being encoded: SegmentEncoder() with the default scale
NoEncoder ==
    /\ scale = 1
    /\ segments = <<>>
    /\ encoded = NoEncoding

\* a new file in memory (seekable, at offset 0)
Init ==
    /\ \E f \in NewFiles : InitInstance(f, TRUE, 0)
    /\ NoEncoder

\* a file given to be read: in memory, or a pipe positioned at its first block
InitRead ==
    /\ \/ \E f \in GivenFiles : InitInstance(f, TRUE, 0)
       \/ \E f \in PipeFiles :
             InitInstance(f, FALSE, Len(SKYBRUSH_BINARY_FILE_HEADER(1)))
    /\ NoEncoder

Unchanged_ghosts ==
    UNCHANGED << made, written, intact, finalized, reopened, tampered,
                 scale, segments, encoded >>

\* ------------------------------------------------------------------------
\* Operations
\* ------------------------------------------------------------------------
\* await show.add_block(type, body)
AddBlockWith(type, body) ==
    \E s \in { add_block(Self, type, body) } :
    LET ok == s.exc = "none"
    IN  /\ Commit(s)
        /\ last' = [Outcome("add_block", s) EXCEPT !.arg = Len(body)]
        /\ written' = IF ok THEN Append(written, [type |-> type, body |-> body])
                      ELSE written
        /\ intact' = (intact /\ (~ok \/ pos = Len(file) \/ seekable))
        /\ finalized' = (finalized /\ ~ok)
        /\ tampered' = IF ok THEN None ELSE tampered
        /\ UNCHANGED << gen, blocks, made, reopened,
                        scale, segments, encoded >>

AddBlock ==
    /\ Len(written) < MaxBlocks
    /\ \E w \in Writes : AddBlockWith(w.type, w.body)

\* await show.finalize()
Finalize ==
    \E s \in { finalize(Self) } :
    LET done == s.exc = "none" /\ s.version = 2 /\ HasCRC32(s.features)
    IN  /\ Commit(s)
        /\ last' = Outcome("finalize", s)
        /\ finalized' = (finalized \/ done)
        /\ tampered' = IF done THEN None ELSE tampered
        /\ UNCHANGED << gen, blocks, made, written, intact, reopened,
                        scale, segments, encoded >>

\* await show.validate_checksum()
ValidateChecksum ==
    \E s \in { validate_checksum(Self) } :
        /\ Commit(s)
        /\ last' = Outcome("validate_checksum", s)
        /\ UNCHANGED << gen, blocks >>
        /\ Unchanged_ghosts

\* await show._rewind()
Rewind ==
    \E s \in { rewind(Self) } :
        /\ Commit(s)
        /\ last' = Outcome("rewind", s)
        /\ UNCHANGED << gen, blocks >>
        /\ Unchanged_ghosts

\* gen = show.blocks(rewind, validate)
BlocksCall ==
    \E a \in GenArgs :
        \E m \in { blocks_call(Self, a[1], a[2]) } :
            /\ gen' = m.gen
            /\ blocks' = m.blocks
            /\ last' = Outcome("blocks", m.s)
            /\ UNCHANGED << file, pos, seekable, version, features, start_of_crc_bytes,
                            start_of_first_block, checksum_validated >>
            /\ Unchanged_ghosts

\* block = await gen.__anext__()
BlocksNext ==
    /\ gen.pc \in {"created", "suspended"}
    /\ \E m \in { gen_next([s |-> Self, gen |-> gen, blocks |-> blocks]) } :
           /\ Commit(m.s)
           /\ gen' = m.gen
           /\ blocks' = m.blocks
           /\ last' = Outcome("next", m.s)
           /\ Unchanged_ghosts

\* await blocks[i].read()
BlockRead ==
    \E i \in 1..Len(blocks) :
        /\ blocks[i].calls < MaxCalls
        /\ \E r \in { block_read(Self, blocks[i]) } :
               /\ Commit(r.s)
               /\ blocks' = [blocks EXCEPT ![i] = r.b]
               /\ last' = Outcome("read", r.s)
               /\ UNCHANGED gen
               /\ Unchanged_ghosts

\* made = SkybrushBinaryFileBlock(type, contents), contents bytes or None
MakeBlock ==
    /\ made = <<>>
    /\ \E w \in Writes :
          \E c \in { <<>>, << w.body >> } : made' = << ReadyBlock(w.type, c) >>
    /\ last' = NoCall
    /\ UNCHANGED << file, pos, seekable, version, features, start_of_crc_bytes,
                    start_of_first_block, checksum_validated, gen, blocks,
                    written, intact, finalized, reopened, tampered,
                    scale, segments, encoded >>

\* await made.read()
MadeRead ==
    /\ made # <<>>
    /\ \E r \in { block_read(Self, made[1]) } :
          /\ Commit(r.s)
          /\ made' = << r.b >>
          /\ last' = Outcome("made.read", r.s)
          /\ UNCHANGED << gen, blocks, written, intact, finalized, reopened, tampered,
                          scale, segments, encoded >>

\* blocks = await show.read_all_blocks(rewind, validate)
ReadAllBlocks ==
    \E a \in GenArgs :
        \E m \in { read_all_blocks(Self, a[1], a[2]) } :
            /\ Commit(m.s)
            /\ gen' = m.gen
            /\ blocks' = m.blocks
            /\ last' = Outcome("read_all_blocks", m.s)
            /\ Unchanged_ghosts

\* SkybrushBinaryShowFile.from_bytes(show.get_contents()): a new instance
\* on the bytes of an in-memory file
Reopen ==
    /\ seekable
    /\ ~reopened
    /\ last.op # "init"
    /\ file' = file
    /\ pos' = 0
    /\ seekable' = TRUE
    /\ version' = None
    /\ features' = 0
    /\ start_of_crc_bytes' = None
    /\ start_of_first_block' = None
    /\ checksum_validated' = FALSE
    /\ gen' = NoGen
    /\ blocks' = <<>>
    /\ reopened' = TRUE
    /\ last' = NoCall
    /\ UNCHANGED << made, written, intact, finalized, tampered,
                    scale, segments, encoded >>

Next ==
    \/ AddBlock
    \/ Finalize
    \/ ValidateChecksum
    \/ Rewind
    \/ BlocksCall
    \/ BlocksNext
    \/ BlockRead
    \/ ReadAllBlocks

\* writing and reading a new file
Spec == Init /\ [][Next]_vars

NextRead ==
    \/ Finalize
    \/ ValidateChecksum
    \/ Rewind
    \/ BlocksCall
    \/ BlocksNext
    \/ BlockRead
    \/ ReadAllBlocks
    \/ MakeBlock
    \/ MadeRead

\* reading a given file
SpecRead == InitRead /\ [][NextRead]_vars

\* ------------------------------------------------------------------------
\* A finalized file that is opened again, possibly after one of its bytes
\* was changed
\* ------------------------------------------------------------------------
\* the values a changed byte takes
TamperValues == {1, 2, 3}

\* the offsets of the stored checksum
CrcField == IF start_of_crc_bytes = None THEN {}
            ELSE start_of_crc_bytes .. start_of_crc_bytes + 3

\* One byte of a finalized file, outside the checksum field, takes another
\* value, and a new instance is opened on the result.
Tamper ==
    /\ finalized
    /\ ~reopened
    /\ \E i \in (0 .. Len(file) - 1) \ CrcField, v \in TamperValues :
          /\ file[i + 1] # v
          /\ file' = [file EXCEPT ![i + 1] = v]
          /\ tampered' = i
    /\ pos' = 0
    /\ seekable' = TRUE
    /\ version' = None
    /\ features' = 0
    /\ start_of_crc_bytes' = None
    /\ start_of_first_block' = None
    /\ checksum_validated' = FALSE
    /\ gen' = NoGen
    /\ blocks' = <<>>
    /\ intact' = FALSE
    /\ finalized' = FALSE
    /\ reopened' = TRUE
    /\ last' = NoCall
    /\ UNCHANGED << made, written,
                    scale, segments, encoded >>

InitCRC ==
    /\ InitInstance([data |-> SKYBRUSH_BINARY_FILE_HEADER(2), blocks |-> <<>>,
                     intact |-> TRUE, finalized |-> FALSE], TRUE, 0)
    /\ NoEncoder

NextCRC ==
    \/ AddBlock
    \/ Finalize
    \/ ValidateChecksum
    \/ Rewind
    \/ Reopen
    \/ Tamper

\* writing a version 2 file with a checksum, and opening it again
SpecCRC == InitCRC /\ [][NextCRC]_vars

\* C2: on a version 2 file with the CRC32 feature on which finalize() was
\* the last write, validate_checksum() succeeds and marks the checksum
\* validated, on the instance that wrote the file and on a new instance
\* opened on the same bytes once it has parsed the header.
C2_FinalizedValidates ==
    (finalized /\ version # None /\ last.op = "validate_checksum")
        => (last.exc = "none" /\ checksum_validated)

\* a new instance, opened on a finalized file with blocks, has validated it
C2_Witness ==
    /\ finalized
    /\ reopened
    /\ tampered = None
    /\ Len(written) >= 1
    /\ last.op = "validate_checksum"
    /\ last.exc = "none"
    /\ checksum_validated

\* the changed byte is the version byte, or the flags byte with bit 0 clear
TamperedDeclaration ==
    \/ tampered = Len(SKYBRUSH_BINARY_FILE_MARKER)
    \/ /\ tampered = Len(SKYBRUSH_BINARY_FILE_MARKER) + 1
       /\ ~HasCRC32(file[tampered + 1])

\* C3 as stated: after any one byte outside the checksum field of a
\* finalized CRC32 file was changed, validate_checksum() on an instance
\* opened on the modified bytes raises (left aside the instances on which
\* a failed header parse has recorded an unsupported version).
C3_AnyByteDetected ==
    (tampered # None /\ version \in {None, 1, 2} /\ last.op = "validate_checksum")
        => last.exc # "none"

\* C3 amended: the same, for every changed byte but the version byte and a
\* flags byte left with bit 0 clear (a byte of the marker, the flags byte
\* with bit 0 still set, any byte of a block).
C3_ChangeDetected ==
    (tampered # None /\ ~TamperedDeclaration /\ last.op = "validate_checksum")
        => last.exc # "none"

\* a changed byte of a block makes the comparison of the checksums fail
C3_Witness ==
    /\ tampered # None
    /\ tampered >= Len(SKYBRUSH_BINARY_FILE_HEADER(2))
    /\ last.op = "validate_checksum"
    /\ last.exc = "CRCError"

\* ------------------------------------------------------------------------
\* Properties of a new file that is written and read (Spec)
\* ------------------------------------------------------------------------
\* blocks() or read_all_blocks() rewinds: rewind is True, or None on a
\* seekable stream
Rewinds(g) == g.rewind = "True" \/ (g.rewind = "None" /\ seekable)

\* the i-th block received is the i-th block stored: its type, the length
\* its loader was bound to, and its body once read
SameBlock(b, w) ==
    /\ b.type = w.type
    /\ b.loader # <<>> => b.loader[1].length = Len(w.body)
    /\ b.contents # <<>> => b.contents[1] = w.body

\* C1: on a seekable in-memory file of version 1 or 2, read_all_blocks()
\* after finalize() succeeds and returns exactly the blocks written, in
\* the order written, with their types; and every read() of a returned
\* block, also one made after read_all_blocks() has returned, succeeds and
\* gives the body written.
C1_RoundTrip ==
    (intact /\ seekable /\ gen.via = "read_all_blocks" /\ Rewinds(gen))
        => /\ Len(blocks) <= Len(written)
           /\ \A i \in 1..Len(blocks) : SameBlock(blocks[i], written[i])
           /\ last.op = "read_all_blocks"
                 => /\ (finalized \/ ~HasCRC32(features)) => last.exc = "none"
                    /\ last.exc = "none" => Len(blocks) = Len(written)
           /\ last.op = "read" => last.exc = "none"

\* two different blocks were written, the file finalized, read_all_blocks()
\* returned, and the bodies were read afterwards, the second one last
C1_Witness ==
    /\ finalized
    /\ gen.via = "read_all_blocks"
    /\ gen.pc = "done"
    /\ gen.rewind = "None"
    /\ gen.validate = "None"
    /\ Len(written) = 2
    /\ written[1] # written[2]
    /\ Len(blocks) = 2
    /\ \A i \in 1..2 : blocks[i].contents = << written[i].body >>
    /\ last.op = "read"
    /\ pos = Len(file)

\* C6: on a seekable stream a successful add_block leaves the bytes of the
\* file as they were and puts the 3-byte header and the body right after
\* them, wherever the cursor was, also between two steps of an iteration.
C6_Appends ==
    [][ (seekable /\ last'.op = "add_block" /\ last'.exc = "none")
           => LET w == written'[Len(written')]
              IN  /\ Len(written') = Len(written) + 1
                  /\ SubSeq(file', 1, Len(file)) = file
                  /\ SubSeq(file', Len(file) + 1, Len(file'))
                        = << w.type, Len(w.body) % 256, Len(w.body) \div 256 >>
                          \o w.body ]_vars

\* a block was appended while an iteration was suspended at a yield with the
\* cursor inside the file
C6_Witness ==
    /\ seekable
    /\ last.op = "add_block"
    /\ last.exc = "none"
    /\ gen.pc = "suspended"
    /\ gen.end_of_block < Len(file)
    /\ Len(written) = 2

\* the exceptions the header parse raises
RewindErrors ==
    {"BadHeader", "TypeError", "IndexError", "UnsupportedVersion", "UnsupportedOperation"}

\* the step that runs blocks() from its start to its first yield or its end
FirstNext == last'.op = "next" /\ gen.pc = "created"

\* C7: with validate left at None the checksum validation runs iff
\* checksum_validated is false when blocks() resolves the default, that
\* is on the first step of the iteration, after the rewind; a checksum
\* error is raised before any block is yielded; and after a validation
\* that succeeds the first header is read at the cursor position that was
\* in effect before the validation (the first block after a rewind).
C7_ValidatesFirst ==
    [][ /\ (FirstNext /\ gen.validate = "None" /\ last'.exc \notin RewindErrors)
              => (last'.validations = 1 <=> ~checksum_validated)
        /\ (last'.op = "next" /\ last'.validations > 0) => gen.pc = "created"
        /\ (last'.op = "next" /\ last'.exc = "CRCError")
              => (gen.pc = "created" /\ blocks' = <<>> /\ gen'.pc = "failed")
        /\ (FirstNext /\ last'.validations = 1 /\ last'.exc = "none")
              => LET p == IF Rewinds(gen) THEN start_of_first_block' ELSE pos
                 IN  /\ gen'.pc = "suspended"
                        => (blocks'[1].loader[1].offset = p + HeaderStructSize
                            /\ file[p + 1] = blocks'[1].type)
                     /\ gen'.pc = "done" => (pos' = p /\ p >= Len(file)) ]_vars

\* the default validation ran on a file with a block, succeeded, and the
\* first block was yielded
C7_Witness ==
    /\ last.op = "next"
    /\ last.validations = 1
    /\ last.exc = "none"
    /\ gen.validate = "None"
    /\ gen.pc = "suspended"
    /\ Len(blocks) = 1
    /\ HasCRC32(features)
    /\ checksum_validated

\* ------------------------------------------------------------------------
\* Properties of a given file that is read (SpecRead)
\* ------------------------------------------------------------------------
\* C4 as stated: on a non-seekable stream positioned at the first block,
\* an iteration of blocks() that has ended has ended normally and has
\* yielded every block of the stream once, in order.
C4_PipeIteration ==
    (~seekable /\ intact /\ gen.via = "blocks"
        /\ gen.rewind = "None" /\ gen.validate = "None"
        /\ gen.pc \in {"done", "failed"})
        => /\ gen.pc = "done"
           /\ Len(blocks) = Len(written)
           /\ \A i \in 1..Len(blocks) : SameBlock(blocks[i], written[i])

\* the file declares no CRC32 feature: version 1, or version 2 with bit 0
\* of the flags byte clear
DeclaresNoCRC32 ==
    /\ Len(file) > Len(SKYBRUSH_BINARY_FILE_MARKER)
    /\ SubSeq(file, 1, Len(SKYBRUSH_BINARY_FILE_MARKER)) = SKYBRUSH_BINARY_FILE_MARKER
    /\ \/ file[5] = 1
       \/ file[5] = 2 /\ Len(file) > 5 /\ file[6] % 2 = 0

\* the call changed nothing of the stream
NoOp == file' = file /\ pos' = pos

\* C8 as stated: on a file that declares no CRC32 feature,
\* validate_checksum() and finalize() return without error, write no
\* byte and leave the cursor where it was, in every state.
C8_AlwaysNoOp ==
    [][ (DeclaresNoCRC32 /\ last'.op \in {"validate_checksum", "finalize"})
           => (last'.exc = "none" /\ NoOp) ]_vars

\* C8 amended: on such a file, once the header has been parsed they return
\* without error, write no byte and leave the cursor and the instance as
\* they were; before that, validate_checksum() raises "version header was
\* not read yet", and finalize() parses the header and leaves the stream
\* as it was on a seekable stream and raises on a stream that is not.
C8_NoOpOnceParsed ==
    [][ DeclaresNoCRC32 =>
          /\ (version # None /\ last'.op \in {"validate_checksum", "finalize"})
                => /\ last'.exc = "none"
                   /\ NoOp
                   /\ UNCHANGED << version, features, start_of_crc_bytes,
                                   start_of_first_block, checksum_validated >>
          /\ (version = None /\ last'.op = "validate_checksum")
                => (last'.exc = "HeaderNotRead" /\ NoOp)
          /\ (version = None /\ last'.op = "finalize")
                => /\ NoOp
                   /\ last'.exc = (IF seekable THEN "none" ELSE "NotSeekable")
                   /\ seekable => version' \in {1, 2} ]_vars

\* finalize() parsed the header of a file without checksum with the cursor
\* away from the start, then validate_checksum() returned
C8_Witness ==
    /\ DeclaresNoCRC32
    /\ version \in {1, 2}
    /\ last.op = "validate_checksum"
    /\ last.exc = "none"
    /\ pos > 0
    /\ ~checksum_validated

\* the blocks the caller holds after the step are those it held before
\* (and those the step yielded): the step starts no new iteration
SameBlocks == last'.op \notin {"blocks", "read_all_blocks", "init"}

\* C9 as stated: the loader of a block is invoked at most once.
C9_LoaderOnce == \A i \in 1..Len(blocks) : blocks[i].calls <= 1

\* C9 amended: the loader of a block returns at most once: a read() whose
\* loader raises leaves the block unconsumed and the next read() invokes
\* the loader again; once a read() has returned, the block is consumed,
\* its loader is never invoked again and every read() gives the same
\* bytes; consumed is false before that, also when the body is empty. A
\* block built from ready contents is consumed and never invokes a loader.
C9_MaterializesOnce ==
    /\ [](/\ \A i \in 1..Len(blocks) :
               /\ consumed(blocks[i]) <=> blocks[i].contents # <<>>
               /\ blocks[i].calls = 0 => ~consumed(blocks[i])
          /\ made # <<>> => (consumed(made[1]) /\ made[1].calls = 0))
    /\ [][ /\ SameBlocks =>
                \A i \in 1..Len(blocks) :
                   /\ consumed(blocks[i]) => blocks'[i] = blocks[i]
                   /\ blocks'[i].calls <= blocks[i].calls + 1
                   /\ (blocks'[i].calls > blocks[i].calls)
                         => (consumed(blocks'[i]) <=> last'.exc = "none")
           /\ (made # <<>> /\ made' # <<>>) => made' = made ]_vars

\* a loader raised twice on a block cut short, and a block with an empty
\* body was read
C9_Witness ==
    /\ \E i \in 1..Len(blocks) : blocks[i].calls = 2 /\ ~consumed(blocks[i])
    /\ \E i \in 1..Len(blocks) :
          blocks[i].calls = 1 /\ consumed(blocks[i]) /\ blocks[i].contents = << <<>> >>

\* ------------------------------------------------------------------------
\* Bodies around the size limit
\* ------------------------------------------------------------------------
\* a body of n bytes
body_of(n) == [i \in 1..n |-> 65]

\* the lengths of the bodies given to add_block: 0, 1, 256 bytes, the
\* largest one that fits the length field, and the first that does not
BodyLengths == {0, 1, 256, BodyLengthLimit - 1, BodyLengthLimit}

\* await show.add_block(type, body) with a body of one of these lengths
AddSizedBlock ==
    /\ Len(written) < MaxBlocks
    /\ \E n \in BodyLengths : AddBlockWith(3, body_of(n))

NextSize ==
    \/ AddSizedBlock
    \/ Rewind

\* writing blocks of all sizes to a new file
SpecSize == Init /\ [][NextSize]_vars

\* the blocks stored in data from offset at on, read frame by frame: the
\* type, the 16-bit little-endian length, and the bytes that follow
RECURSIVE Frames(_, _)
Frames(data, at) ==
    IF at + HeaderStructSize > Len(data) THEN <<>>
    ELSE LET length == data[at + 2] + 256 * data[at + 3]
             body == SubSeq(data, at + HeaderStructSize + 1,
                            at + HeaderStructSize + length)
         IN  << [type |-> data[at + 1], body |-> body] >>
             \o Frames(data, at + HeaderStructSize + length)

\* the length of the file header of a new file
HeaderLength ==
    IF file[5] = 1 THEN 5 ELSE IF HasCRC32(file[6]) THEN 10 ELSE 6

\* C5: add_block raises on a body of 65536 bytes or more and on no
\* shorter body; a call that raises leaves the bytes of the stream as they
\* were; and the stream holds, after its header, exactly the frames of the
\* accepted bodies: each length field is in 0..65535 and is the length of
\* the body that follows it.
C5_SizeLimit ==
    /\ [](/\ last.op = "add_block"
               => (last.exc = "ValueError" <=> last.arg >= 65536)
          /\ Frames(file, HeaderLength) = written
          /\ \A i \in 1..Len(written) : Len(written[i].body) \in 0..65535)
    /\ [][ (last'.op = "add_block" /\ last'.exc # "none")
              => (file' = file /\ written' = written) ]_vars

\* a body of 65536 bytes was refused on a file that holds a block, and the
\* file still ends with that block
C5_Witness ==
    /\ last.op = "add_block"
    /\ last.exc = "ValueError"
    /\ last.arg = 65536
    /\ Len(written) = 1
    /\ Len(file) = HeaderLength + 3 + Len(written[1].body)

\* ------------------------------------------------------------------------
\* Floating-point arithmetic (Python float: IEEE 754 binary64)
\* ------------------------------------------------------------------------
\* A positive float is [bits, exp]: the 53 binary digits of its significand,
\* the most significant first (bits[1] = 1), and the exponent of the first
\* digit: the value is 1.b2 b3 ... b53 times 2^exp. Results are rounded to
\* the nearest float, ties to even.

\* the width of the significand
SignificandBits == 53

\* the width of a limb of the significand in float_product
LimbBits == 14

\* the binary digits of a natural number, the most significant first
RECURSIVE bits_of(_)
bits_of(n) == IF n = 0 THEN <<>> ELSE Append(bits_of(n \div 2), n % 2)

\* the natural number with these binary digits
RECURSIVE bits_value(_)
bits_value(bits) ==
    IF bits = <<>> THEN 0
    ELSE 2 * bits_value(SubSeq(bits, 1, Len(bits) - 1)) + bits[Len(bits)]

\* bits + 1, for digits that are not all 1
RECURSIVE bits_increment(_)
bits_increment(bits) ==
    IF bits[Len(bits)] = 0 THEN [bits EXCEPT ![Len(bits)] = 1]
    ELSE Append(bits_increment(SubSeq(bits, 1, Len(bits) - 1)), 0)

\* the significand rounded up
round_up(bits, exp) ==
    IF \A i \in 1..Len(bits) : bits[i] = 1
    THEN [bits |-> [i \in 1..Len(bits) |-> IF i = 1 THEN 1 ELSE 0],
          exp |-> exp + 1]
    ELSE [bits |-> bits_increment(bits), exp |-> exp]

\* round to nearest, ties to even: digits holds one digit more than the
\* significand, inexact tells that nonzero digits follow it
float_round(digits, inexact, exp) ==
    IF digits[SignificandBits + 1] = 1
       /\ (inexact \/ digits[SignificandBits] = 1)
    THEN round_up(SubSeq(digits, 1, SignificandBits), exp)
    ELSE [bits |-> SubSeq(digits, 1, SignificandBits), exp |-> exp]

\* long division: the digits of the quotient after those in digits, up to
\* n digits; r is the remainder so far, b the divisor, skipped the number
\* of zeros before the first digit of a quotient below 1
RECURSIVE divide_digits(_, _, _, _, _)
divide_digits(r, b, digits, skipped, n) ==
    IF Len(digits) = n THEN [digits |-> digits, skipped |-> skipped, rem |-> r]
    ELSE IF 2 * r >= b
         THEN divide_digits(2 * r - b, b, Append(digits, 1), skipped, n)
         ELSE IF digits = <<>>
              THEN divide_digits(2 * r, b, digits, skipped + 1, n)
              ELSE divide_digits(2 * r, b, Append(digits, 0), skipped, n)

\* the quotient of float_divide from its digits
float_quotient(q, whole) ==
    float_round(q.digits, q.rem # 0,
                IF whole > 0 THEN Len(bits_of(whole)) - 1 ELSE 0 - (q.skipped + 1))

\* a / b for integers a, b > 0, as Python's true division gives it
float_divide(a, b) ==
    float_quotient(
        divide_digits(a % b, b, bits_of(a \div b), 0, SignificandBits + 1),
        a \div b)

\* the limbs of a significand, the least significant first
limbs_of(bits) ==
    [j \in 1..((Len(bits) + LimbBits - 1) \div LimbBits) |->
        bits_value(SubSeq(bits,
                          IF Len(bits) - LimbBits * j + 1 < 1 THEN 1
                          ELSE Len(bits) - LimbBits * j + 1,
                          Len(bits) - LimbBits * (j - 1)))]

\* the sum of a[i] * b[k + 1 - i] over the limbs i of a that have such a
\* limb of b, from limb i on
RECURSIVE column_sum(_, _, _, _)
column_sum(a, b, k, i) ==
    IF i > Len(a) THEN 0
    ELSE (IF k + 1 - i \in 1..Len(b) THEN a[i] * b[k + 1 - i] ELSE 0)
         + column_sum(a, b, k, i + 1)

\* the digits of a limb, LimbBits of them
limb_digits(v) ==
    [i \in 1..(LimbBits - Len(bits_of(v))) |-> 0] \o bits_of(v)

\* the digits of the product of the limbs a and b from column k on, the
\* most significant first; carry comes from the columns before
RECURSIVE product_digits(_, _, _, _)
RECURSIVE product_column(_, _, _, _)
product_digits(a, b, k, carry) ==
    IF k > Len(a) + Len(b) THEN <<>>
    ELSE product_column(a, b, k, column_sum(a, b, k, 1) + carry)

\* column k of product_digits, given its sum with the carry
product_column(a, b, k, total) ==
    product_digits(a, b, k + 1, total \div (2 ^ LimbBits))
    \o limb_digits(total % (2 ^ LimbBits))

\* digits without the zeros in front
RECURSIVE strip_zeros(_)
strip_zeros(digits) ==
    IF digits # <<>> /\ digits[1] = 0 THEN strip_zeros(Tail(digits))
    ELSE digits

\* the product of float_product from the digits of the product of the
\* significands
float_rounded_product(digits, exp) ==
    float_round(SubSeq(digits, 1, SignificandBits + 1),
                \E i \in (SignificandBits + 2)..Len(digits) : digits[i] = 1,
                exp + Len(digits) - (2 * SignificandBits - 1))

\* x * y
float_product(x, y) ==
    float_rounded_product(
        strip_zeros(product_digits(limbs_of(x.bits), limbs_of(y.bits), 1, 0)),
        x.exp + y.exp)

\* round(x) in the place of int(x): the nearest whole number
float_int_nearest(x) ==
    IF x.exp < 0 - 1 THEN 0
    ELSE bits_value(SubSeq(x.bits, 1, x.exp + 1)) + x.bits[x.exp + 2]

\* int(x) for a float below 2^30: the digits before the binary point
float_int(x) == IF x.exp < 0 THEN 0 ELSE bits_value(SubSeq(x.bits, 1, x.exp + 1))

\* ------------------------------------------------------------------------
\* SegmentEncoder
\* ------------------------------------------------------------------------
\* A coordinate is given in whole millimetres c and stands for the float
\* c / 1000 (metres); the scaling factor of the encoder is a whole number k;
\* a duration is taken in whole milliseconds, a yaw angle in hundredths of
\* a degree.

\* int(a / b) for b > 0: truncation toward zero
int_div(a, b) == IF a >= 0 THEN a \div b ELSE 0 - ((0 - a) \div b)

\* the scaling factors of the encoders that encode segments
Scales == {1, 2}

\* the scaling factors of the encoders that encode points
PointScales == {1, 2, 3, 4, 5, 127}

\* the points the segments are made of, in millimetres: no two agree on z,
\* two agree on x, two agree on y, and two agree on z once halved
Points == { <<0, 0, 0>>, <<0, 7, 0 - 1>>, <<0 - 32768, 7, 32767>> }

\* the magnitudes of the coordinates of the points given to encode_point,
\* in millimetres: small ones, multiples of the scaling factors, and for
\* every scaling factor k the largest below 32768 * k
Magnitudes ==
    { 0, 1, 7, 9, 10, 145, 1000, 1001, 2002, 4004, 32767, 32768, 65534, 65535,
      98303, 131070, 131071, 163839, 256667, 4161535 }

\* the points given to encode_point
SinglePoints == { << c, 0 - c, 7 >> : c \in Magnitudes }

\* the coordinates of all these points
Coordinates == UNION { { p[1], p[2], p[3] } : p \in Points \cup SinglePoints }

\* __init__(scale): self._scale = 1000 / scale
encoder_scale(k) == float_divide(1000, k)

\* self._scale of the encoders, computed once
EncoderScales == [k \in Scales \cup PointScales |-> encoder_scale(k)]

\* int(c * self._scale) for a coordinate c > 0
scale_magnitude(c, k) ==
    float_int(float_product(float_divide(c, 1000), EncoderScales[k]))

\* int(point[i] * self._scale)
scale_coordinate(c, k) ==
    IF c = 0 THEN 0
    ELSE IF c > 0 THEN scale_magnitude(c, k)
    ELSE 0 - scale_magnitude(0 - c, k)

\* the scaled coordinates of the encoders, computed once
ScaledCoordinates ==
    [k \in Scales \cup PointScales |->
        [c \in Coordinates |-> scale_coordinate(c, k)]]

\* _scale_point(point)
scale_point(k, point) ==
    << ScaledCoordinates[k][point[1]], ScaledCoordinates[k][point[2]],
       ScaledCoordinates[k][point[3]] >>

\* x.to_bytes(2, byteorder="little", signed=True) for x in -32768..32767
to_bytes2(x) ==
    LET u == IF x < 0 THEN x + 65536 ELSE x
    IN  << u % 256, u \div 256 >>

\* to_bytes raises OverflowError outside this range
fits_int16(x) == x \in -32768..32767

\* round_third truncating toward zero
round_third_truncated(n) == int_div(n, 3)

\* int(round(n / 3)): the nearest integer (n / 3 is never halfway)
round_third(n) == (2 * n + 3) \div 6

\* a quadratic Bezier curve promoted to a cubic one
promote(first, xs) ==
    << round_third(first + 2 * xs[1]), round_third(2 * xs[1] + xs[2]), xs[2] >>

\* series_format taking 4, 5 and 6 values for a 7D curve
series_format_padded(n) ==
    IF n = 1 THEN 1 ELSE IF n = 3 THEN 2 ELSE IF n \in 4..7 THEN 3 ELSE None

\* the format of a series of n values: linear, cubic, 7D, or None where
\* _encode_coordinate_series raises NotImplementedError
series_format(n) ==
    IF n = 1 THEN 1 ELSE IF n = 3 THEN 2 ELSE IF n = 7 THEN 3 ELSE None

\* _encode_coordinate_series(xs): the format and the encoded coordinates
encode_coordinate_series(series) ==
    LET first == Head(series)
        rest == Tail(series)
        xs == IF Len(rest) = 2 THEN promote(first, rest) ELSE rest
        coords == [i \in 1..Len(xs) |-> to_bytes2(xs[i])]
        result(format) == [format |-> format, coords |-> coords, exc |-> "none"]
        raise(exc) == [format |-> 0, coords |-> <<>>, exc |-> exc]
    IN  IF \A i \in 1..Len(rest) : rest[i] = first
        THEN [format |-> 0, coords |-> << <<>> >>, exc |-> "none"]
        ELSE IF \E i \in 1..Len(xs) : ~fits_int16(xs[i])
        THEN raise("OverflowError")
        ELSE IF series_format(Len(xs)) = None THEN raise("NotImplementedError")
        ELSE result(series_format(Len(xs)))

\* b"".join(parts): the first half of the parts, then the second
RECURSIVE join(_)
join(parts) ==
    IF parts = <<>> THEN <<>>
    ELSE IF Len(parts) = 1 THEN parts[1]
    ELSE join(SubSeq(parts, 1, Len(parts) \div 2))
         \o join(SubSeq(parts, Len(parts) \div 2 + 1, Len(parts)))

\* Struct("<BH").pack(format, duration)
segment_header_pack(format, duration) ==
    << format, duration % 256, duration \div 256 >>

\* encode_segment(segment): the bytes returned or the exception raised
encode_segment(k, segment) ==
    LET duration == segment.duration
        n == Len(segment.points)
        scaled == [i \in 1..n |-> scale_point(k, segment.points[i])]
        x == encode_coordinate_series([i \in 1..n |-> scaled[i][1]])
        y == encode_coordinate_series([i \in 1..n |-> scaled[i][2]])
        z == encode_coordinate_series([i \in 1..n |-> scaled[i][3]])
        raise(exc) == [exc |-> exc, out |-> <<>>]
    IN  IF duration < 0 \/ duration > 65535 THEN raise("RuntimeError")
        ELSE IF x.exc # "none" THEN raise(x.exc)
        ELSE IF y.exc # "none" THEN raise(y.exc)
        ELSE IF z.exc # "none" THEN raise(z.exc)
        ELSE [exc |-> "none",
              out |-> segment_header_pack(
                          x.format + 4 * y.format + 16 * z.format, duration)
                      \o join(x.coords) \o join(y.coords) \o join(z.coords)]

\* the durations of the segments, in milliseconds
Durations == {0 - 1, 258, 65535, 65536}

\* the point lists of the segments: a start point and up to MaxPoints - 1
\* control points and end point
PointLists == UNION { [1..n -> Points] : n \in 2..MaxPoints }

\* an encoder and one segment to encode
InitEnc ==
    /\ InitInstance([data |-> SKYBRUSH_BINARY_FILE_HEADER(1), blocks |-> <<>>,
                     intact |-> TRUE, finalized |-> FALSE], TRUE, 0)
    /\ scale \in Scales
    /\ \E ps \in PointLists, d \in Durations :
          segments = << [points |-> ps, duration |-> d] >>
    /\ encoded = NoEncoding

\* encoder.encode_segment(segment)
EncodeSegment ==
    \E i \in 1..Len(segments) :
       \E r \in { encode_segment(scale, segments[i]) } :
          /\ encoded' = [op |-> "encode_segment", segment |-> segments[i],
                         exc |-> r.exc, out |-> r.out]
          /\ UNCHANGED << file, pos, seekable, version, features,
                          start_of_crc_bytes, start_of_first_block,
                          checksum_validated, gen, blocks, made, written,
                          intact, finalized, reopened, tampered, last, scale,
                          segments >>

NextEnc ==
    \/ EncodeSegment

\* encoding trajectory segments
SpecEnc == InitEnc /\ [][NextEnc]_vars

\* the coordinates of the encoded segment on axis a, scaled: the start
\* coordinate, then those that remain
Series(a) ==
    [i \in 1..Len(encoded.segment.points) |->
        scale_point(scale, encoded.segment.points[i])[a]]

\* all the remaining values of axis a equal the start coordinate
Constant(a) == \A i \in 2..Len(Series(a)) : Series(a)[i] = Series(a)[1]

\* the number of values that remain after the start coordinate
Remaining == Len(encoded.segment.points) - 1

\* the format code of axis a in the header byte
FormatOf(a) ==
    CASE a = 1 -> encoded.out[1] % 4
      [] a = 2 -> (encoded.out[1] \div 4) % 4
      [] a = 3 -> (encoded.out[1] \div 16) % 4

\* the number of values a format code announces
ValuesOf(format) ==
    CASE format = 0 -> 0 [] format = 1 -> 1 [] format = 2 -> 3 [] format = 3 -> 7

\* the signed 16-bit little-endian value stored at offset at of the output
ValueAt(at) ==
    LET u == encoded.out[at + 1] + 256 * encoded.out[at + 2]
    IN  IF u >= 32768 THEN u - 65536 ELSE u

\* the values of axis a in the output: after the header byte and the two
\* bytes of the duration, those of x, then those of y, then those of z
ValuesFrom(a) ==
    CASE a = 1 -> 3
      [] a = 2 -> 3 + 2 * ValuesOf(FormatOf(1))
      [] a = 3 -> 3 + 2 * ValuesOf(FormatOf(1)) + 2 * ValuesOf(FormatOf(2))

Emitted(a) ==
    [i \in 1..ValuesOf(FormatOf(a)) |-> ValueAt(ValuesFrom(a) + 2 * (i - 1))]

\* v is n / 3 rounded to the nearest integer
NearestThird(v, n) == 3 * v - n \in {0 - 1, 0, 1}

\* the classification of axis a
Classified(a) ==
    LET s == Series(a)
        e == Emitted(a)
    IN  IF Constant(a) THEN FormatOf(a) = 0 /\ e = <<>>
        ELSE CASE Remaining = 1 -> FormatOf(a) = 1 /\ e = << s[2] >>
               [] Remaining = 2 ->
                     /\ FormatOf(a) = 2
                     /\ NearestThird(e[1], s[1] + 2 * s[2])
                     /\ NearestThird(e[2], 2 * s[2] + s[3])
                     /\ e[3] = s[3]
               [] Remaining = 3 -> FormatOf(a) = 2 /\ e = Tail(s)
               [] Remaining = 7 -> FormatOf(a) = 3 /\ e = Tail(s)
               [] OTHER -> FALSE

\* C10: for a segment whose duration is in 0..65535 ms and whose axes are
\* each constant or have 1, 2, 3 or 7 values after the start coordinate,
\* encode_segment returns the header byte x_format + 4 y_format +
\* 16 z_format (below 64), the duration as two little-endian bytes, and the
\* values of x, then y, then z as signed 16-bit little-endian numbers,
\* where each axis on its own is classified from its scaled coordinates:
\* constant -> 0 and no value; 1 remaining -> 1 and that value; 2
\* remaining -> 2 and the nearest integers to (p0 + 2c)/3 and (2c + p1)/3,
\* then p1; 3 remaining -> 2 and those values; 7 remaining -> 3 and those.
C10_Classification ==
    (/\ encoded.op = "encode_segment"
     /\ encoded.segment.duration \in 0..65535
     /\ \A a \in 1..3 : Constant(a) \/ Remaining \in {1, 2, 3, 7})
        => /\ encoded.exc = "none"
           /\ encoded.out[1] \in 0..63
           /\ encoded.out[2] + 256 * encoded.out[3] = encoded.segment.duration
           /\ Len(encoded.out)
                 = 3 + 2 * (ValuesOf(FormatOf(1)) + ValuesOf(FormatOf(2))
                            + ValuesOf(FormatOf(3)))
           /\ \A a \in 1..3 : Classified(a)

\* a quadratic segment was encoded whose x is constant and whose y and z
\* are elevated to values that are not whole thirds, one of them negative
C10_Witness ==
    /\ encoded.op = "encode_segment"
    /\ scale = 1
    /\ encoded.segment.points = << <<0, 0, 0>>, <<0, 7, 0 - 1>>, <<0, 0, 0>> >>
    /\ encoded.out = << 40, 2, 1, 5, 0, 5, 0, 0, 0, 255, 255, 255, 255, 0, 0 >>

yaw_mod_truncated(yaw) ==
    IF yaw >= 0 THEN yaw % 36000 ELSE 0 - ((0 - yaw) % 36000)

\* yaw % 360, in hundredths of a degree: the sign of the divisor
yaw_mod(yaw) == yaw % 36000

\* round(x * 10) for x >= 0 in hundredths, for x * 10 not halfway between
\* two whole numbers
round_tenths(x) == (x + 5) \div 10

\* the wrap of _scale_yaw at half a turn
yaw_wrap_signed(tenths) == IF tenths >= 1800 THEN tenths - 3600 ELSE tenths

\* yaw - 3600 if yaw >= 3600 else yaw
yaw_wrap(tenths) == IF tenths >= 3600 THEN tenths - 3600 ELSE tenths

\* _scale_yaw(yaw)
scale_yaw(yaw) == yaw_wrap(round_tenths(yaw_mod(yaw)))

\* Struct("<hhhh").pack(x, y, z, yaw)
point_struct_pack(xyz, yaw) ==
    IF fits_int16(xyz[1]) /\ fits_int16(xyz[2]) /\ fits_int16(xyz[3])
       /\ fits_int16(yaw)
    THEN [exc |-> "none",
          out |-> to_bytes2(xyz[1]) \o to_bytes2(xyz[2]) \o to_bytes2(xyz[3])
                  \o to_bytes2(yaw)]
    ELSE [exc |-> "struct.error", out |-> <<>>]

\* encode_point(point, yaw): the bytes returned or the exception raised
encode_point(k, point, yaw) ==
    point_struct_pack(scale_point(k, point), scale_yaw(yaw))

\* the yaw angles given to encode_point, in hundredths of a degree: whole
\* degrees, tenths, and angles that round to a tenth
Yaws ==
    { 0, 10, 1000, 9000, 18000, 27000, 35990, 35994, 35996, 36000, 37000,
      71990, 0 - 4, 0 - 10, 0 - 9000, 0 - 18000, 0 - 35000, 0 - 36000 }

\* an encoder that encodes points
InitPoint ==
    /\ InitInstance([data |-> SKYBRUSH_BINARY_FILE_HEADER(1), blocks |-> <<>>,
                     intact |-> TRUE, finalized |-> FALSE], TRUE, 0)
    /\ scale \in PointScales
    /\ segments = <<>>
    /\ encoded = NoEncoding

\* encoder.encode_point(point, yaw)
EncodePoint ==
    \E point \in SinglePoints, yaw \in Yaws :
       \E r \in { encode_point(scale, point, yaw) } :
          /\ encoded' = [op |-> "encode_point", point |-> point, yaw |-> yaw,
                         exc |-> r.exc, out |-> r.out]
          /\ UNCHANGED << file, pos, seekable, version, features,
                          start_of_crc_bytes, start_of_first_block,
                          checksum_validated, gen, blocks, made, written,
                          intact, finalized, reopened, tampered, last, scale,
                          segments >>

NextPoint ==
    \/ EncodePoint

\* encoding points
SpecPoint == InitPoint /\ [][NextPoint]_vars

\* the i-th little-endian signed 16-bit value of the encoded point
int16_at(out, i) ==
    IF out[2 * i - 1] + 256 * out[2 * i] >= 32768
    THEN out[2 * i - 1] + 256 * out[2 * i] - 65536
    ELSE out[2 * i - 1] + 256 * out[2 * i]

\* every coordinate c of the encoded point has |c| < 32768 * scale
InScalingRange ==
    \A a \in 1..3 : /\ encoded.point[a] < 32768 * scale
                    /\ 0 - encoded.point[a] < 32768 * scale

\* c / scale truncated toward zero, made one closer to zero
OneCloserToZero(c) ==
    IF c > 0 THEN int_div(c, scale) - 1 ELSE int_div(c, scale) + 1

\* C12 as stated: for every scaling factor and every coordinate of c
\* millimetres with |c| < 32768 * scale, the scaled value is c / scale
\* truncated toward zero and lies in -32767..32767.
C12_TruncatedQuotient ==
    (encoded.op = "encode_point" /\ InScalingRange)
        => /\ encoded.exc = "none"
           /\ \A a \in 1..3 :
                 /\ int16_at(encoded.out, a) = int_div(encoded.point[a], scale)
                 /\ int16_at(encoded.out, a) \in -32767..32767

\* C12: for every scaling factor and every coordinate of c millimetres with
\* |c| < 32768 * scale, encode_point succeeds and the scaled value lies in
\* -32767..32767; it is c / scale truncated toward zero, or, only where c
\* is a nonzero multiple of scale, one closer to zero than that (the float
\* product c / 1000 * (1000 / scale) can fall just short of the whole
\* number); it is never the value rounded to nearest.
C12_Truncation ==
    (encoded.op = "encode_point" /\ InScalingRange)
        => /\ encoded.exc = "none"
           /\ \A a \in 1..3 :
                 /\ int16_at(encoded.out, a) \in -32767..32767
                 /\ \/ int16_at(encoded.out, a)
                          = int_div(encoded.point[a], scale)
                    \/ /\ encoded.point[a] # 0
                       /\ encoded.point[a] % scale = 0
                       /\ int16_at(encoded.out, a)
                             = OneCloserToZero(encoded.point[a])

\* C12 witness: the extremum 131070 at scaling factor 4, where rounding to
\* nearest gives 32768, is encoded as 32767 and its opposite as -32767.
C12_Witness ==
    /\ encoded.op = "encode_point"
    /\ scale = 4
    /\ encoded.point[1] = 131070
    /\ encoded.point[2] = 0 - 131070
    /\ encoded.exc = "none"
    /\ int16_at(encoded.out, 1) = 32767
    /\ int16_at(encoded.out, 2) = 0 - 32767

\* C13 as stated: a yaw of 270 degrees is encoded as a negative value.
C13_NegativeYaw ==
    (encoded.op = "encode_point" /\ encoded.exc = "none"
     /\ encoded.yaw = 27000)
        => int16_at(encoded.out, 4) < 0

\* C13: a yaw of 270 degrees is encoded as 2700 tenths of a degree, and the
\* encoded yaw of every angle lies in 0..3599: it is never negative.
C13_YawRange ==
    (encoded.op = "encode_point" /\ encoded.exc = "none")
        => /\ int16_at(encoded.out, 4) \in 0..3599
           /\ encoded.yaw = 27000 => int16_at(encoded.out, 4) = 2700

\* C13 witness: a point was encoded with a yaw of 270 degrees, as 2700.
C13_Witness ==
    /\ encoded.op = "encode_point"
    /\ encoded.exc = "none"
    /\ encoded.yaw = 27000
    /\ int16_at(encoded.out, 4) = 2700

\* two points are encoded one after the other, with yaw angles in whole
\* tenths of a degree that differ by whole turns
WholeTurnsApart ==
    /\ encoded.op = "encode_point" /\ encoded.exc = "none"
    /\ encoded'.op = "encode_point" /\ encoded'.exc = "none"
    /\ encoded.yaw % 10 = 0
    /\ (encoded'.yaw - encoded.yaw) % 36000 = 0

\* C14: the encoded yaw of y + 360 * k degrees equals the encoded yaw of y,
\* for y in whole degrees or tenths, positive, zero or negative; yaw 0 is
\* encoded as 0 and yaw 370 as yaw 10 is.
C14_YawPeriodic ==
    /\ [][WholeTurnsApart
             => int16_at(encoded'.out, 4) = int16_at(encoded.out, 4)]_vars
    /\ []((encoded.op = "encode_point" /\ encoded.exc = "none") =>
             /\ encoded.yaw = 0 => int16_at(encoded.out, 4) = 0
             /\ encoded.yaw = 37000 =>
                   int16_at(encoded.out, 4)
                      = int16_at(encode_point(scale, encoded.point, 1000).out, 4))

\* C14 witness: a yaw of -90 degrees was encoded as 2700, as 270 degrees is.
C14_Witness ==
    /\ encoded.op = "encode_point"
    /\ encoded.exc = "none"
    /\ encoded.yaw = 0 - 9000
    /\ int16_at(encoded.out, 4) = 2700

\* ------------------------------------------------------------------------
\* Properties of the iteration and of the instance
\* ------------------------------------------------------------------------
\* the blocks stored in the file after its header
Stored == Frames(file, HeaderLength)

\* the offset of the body of the i-th block stored
RECURSIVE BodyOffset(_)
BodyOffset(i) ==
    IF i = 1 THEN HeaderLength + HeaderStructSize
    ELSE BodyOffset(i - 1) + Len(Stored[i - 1].body) + HeaderStructSize

\* an iteration with blocks() from the first block of a seekable file
Iterating == seekable /\ intact /\ gen.via = "blocks" /\ Rewinds(gen)

\* C15: on a seekable stream, whether the caller reads none, some or all
\* of the bodies of the blocks yielded between the steps of blocks(), each
\* step yields the block of the next header stored in the file, the
\* iteration ends after the last one, and read() of a block returns the
\* bytes that follow its own header, as many as its length field says.
C15_InSync ==
    /\ [](Iterating =>
            /\ Len(blocks) <= Len(Stored)
            /\ \A i \in 1..Len(blocks) :
                  /\ SameBlock(blocks[i], Stored[i])
                  /\ blocks[i].loader # <<>>
                        => blocks[i].loader[1].offset = BodyOffset(i)
            /\ last.op = "read" => last.exc = "none")
    /\ [][ (Iterating /\ last'.op = "next" /\ last'.exc = "none")
              => \/ /\ gen'.pc = "suspended"
                    /\ Len(blocks') = Len(blocks) + 1
                    /\ SubSeq(blocks', 1, Len(blocks)) = blocks
                 \/ /\ gen'.pc = "done"
                    /\ blocks' = blocks
                    /\ Len(blocks) = Len(Stored) ]_vars

\* C15 witness: two blocks were yielded, the body of the first one was read
\* once the second one had been yielded, moving the cursor back, the second one
\* was not read, and the next step ended the iteration.
C15_Witness ==
    /\ Iterating
    /\ last.op = "next"
    /\ gen.pc = "done"
    /\ Len(blocks) = 2
    /\ Len(Stored) = 2
    /\ blocks[1].contents = << Stored[1].body >>
    /\ Stored[1].body # <<>>
    /\ ~consumed(blocks[2])

\* the fields the header parse sets
Parsed == << start_of_first_block, start_of_crc_bytes, version, features >>

\* C16: once a rewind has cached start_of_first_block, no operation
\* (rewind, blocks, finalize, validate_checksum, add_block, read) changes
\* start_of_first_block, start_of_crc_bytes, version or features or parses
\* the header again, and a rewind only moves the cursor to the cached
\* offset; no operation parses the header twice; and after a successful
\* parse the version is 1 or 2, start_of_crc_bytes is set iff the CRC32
\* feature is set, and the offsets are those of the header of the file.
C16_ParsedOnce ==
    /\ [](start_of_first_block # None =>
            /\ version \in {1, 2}
            /\ start_of_crc_bytes # None <=> HasCRC32(features)
            /\ start_of_first_block = HeaderLength
            /\ start_of_crc_bytes # None
                  => start_of_crc_bytes + 4 = start_of_first_block)
    /\ [][ /\ last'.parses <= 1
           /\ start_of_first_block # None
                 => /\ Parsed' = Parsed
                    /\ last'.parses = 0
                    /\ last'.op = "rewind"
                          => /\ last'.exc = "none"
                             /\ pos' = start_of_first_block
                             /\ file' = file ]_vars

\* C16 witness: a rewind on an instance that had parsed the header of a
\* file with a checksum and appended a block moved the cursor back to the
\* first block and parsed nothing.
C16_Witness ==
    /\ last.op = "rewind"
    /\ last.exc = "none"
    /\ last.parses = 0
    /\ HasCRC32(features)
    /\ start_of_crc_bytes = 6
    /\ pos = start_of_first_block
    /\ Len(written) > 0

\* C17 as stated: the recorded version is always unset, 1 or 2; a rewind
\* that fails on a bad marker or on a version byte other than 1 or 2
\* leaves the version unset and the offsets unknown, so that the features
\* accessor still raises; and finalize() on a seekable stream parses the
\* header as long as no parse has succeeded.
C17_VersionUnsetOr12 ==
    /\ [](version \in {None, 1, 2})
    /\ [][ /\ (last'.op = "rewind"
               /\ last'.exc \in {"BadHeader", "UnsupportedVersion"})
                 => /\ version' = None
                    /\ start_of_first_block' = None
                    /\ features_prop(Self)'.exc = "HeaderNotRead"
           /\ (seekable /\ start_of_first_block = None
               /\ last'.op = "finalize")
                 => last'.parses = 1 ]_vars

\* C18: on a seekable stream validate_checksum() and finalize() (with its
\* header parse when the version is not known) return or raise with the
\* cursor where it was when they were called, and so would
\* _get_expected_crc32() and _update_crc32() called in any reachable state.
C18_CursorRestored ==
    /\ [](seekable => /\ get_expected_crc32(Self).pos = pos
                      /\ update_crc32(Self).pos = pos)
    /\ [][ (seekable /\ last'.op \in {"validate_checksum", "finalize"})
              => pos' = pos ]_vars

\* C18 witness: validate_checksum() raised a checksum error with the cursor
\* inside the file, after the checksum field and before the end, and left
\* it there.
C18_Witness ==
    /\ seekable
    /\ last.op = "validate_checksum"
    /\ last.exc = "CRCError"
    /\ start_of_crc_bytes # None
    /\ pos > start_of_crc_bytes + 4
    /\ pos < Len(file)

\* the checksum a new instance computes for the bytes of the file
ExpectedCrc == get_expected_crc32(rewind(Opened(file))).data

\* C19: checksum_validated starts false; it becomes true only in a step in
\* which validate_checksum() ran on a file with the CRC32 feature whose
\* stored checksum bytes equal the computed checksum; a step that raises a
\* checksum mismatch leaves it as it was; and once true it is never reset,
\* whatever is called afterwards (add_block and finalize included).
C19_Monotonic ==
    /\ ~checksum_validated
    /\ [][ /\ checksum_validated => checksum_validated'
           /\ (~checksum_validated /\ checksum_validated')
                 => /\ last'.validations = 1
                    /\ HasCRC32(features')
                    /\ file' = file
                    /\ SubSeq(file, start_of_crc_bytes' + 1,
                              start_of_crc_bytes' + 4) = ExpectedCrc
           /\ last'.exc = "CRCError"
                 => checksum_validated' = checksum_validated ]_vars

\* C19 witness: the checksum was validated, a block was appended, and a
\* second validate_checksum() raised a mismatch on the stale checksum:
\* checksum_validated is still true.
C19_Witness ==
    /\ checksum_validated
    /\ last.op = "validate_checksum"
    /\ last.exc = "CRCError"
    /\ Len(written) > 0

\* ------------------------------------------------------------------------
\* One iteration of a given file, driven to its end
\* ------------------------------------------------------------------------
\* a version 1 file that ends one byte into a block header
CutFiles ==
    { [data |-> SKYBRUSH_BINARY_FILE_HEADER(1) \o <<3, 1, 0, 65, 1>>,
       blocks |-> <<>>, intact |-> FALSE, finalized |-> FALSE] }

\* a file given to be read: in memory, or a pipe positioned at its first block
InitIter ==
    /\ \/ \E f \in GivenFiles \cup CutFiles : InitInstance(f, TRUE, 0)
       \/ \E f \in PipeFiles \cup CutFiles :
             InitInstance(f, FALSE, Len(SKYBRUSH_BINARY_FILE_HEADER(1)))
    /\ NoEncoder

\* gen = show.blocks(rewind, validate), once
StartIteration ==
    /\ gen.pc = "none"
    /\ BlocksCall

NextIter ==
    \/ StartIteration
    \/ BlocksNext
    \/ BlockRead
    \/ Rewind

\* the iteration is under way
Running == gen.pc \in {"created", "suspended"}

\* the iteration has ended, normally or with an exception
Ended == gen.pc \in {"done", "failed"}

\* a call of __anext__ that has returned, seen from the generator's frame:
\* the frame is at a yield, at its end or ended by an exception, and it is
\* not as it was (Advances states that BlocksNext always is such a step)
AnextCalled ==
    /\ Running
    /\ \/ gen' = [gen EXCEPT !.pc = "failed"]
       \/ gen'.pc \in {"suspended", "done", "failed"}

\* one iteration over a given file, to which nothing is appended; the
\* caller's "async for" calls __anext__ as long as the iteration has not
\* ended
SpecIter == InitIter /\ [][NextIter]_vars /\ WF_gen(AnextCalled)

\* __anext__ never returns with the generator's frame as it was, so that
\* the steps of AnextCalled are those of BlocksNext
Advances ==
    Running => gen_next([s |-> Self, gen |-> gen, blocks |-> blocks]).gen # gen

\* what C20 says of the header reads: the iteration ends normally only on
\* a header read that returns no byte, and a header read that returns one
\* or two bytes ends it with an error and yields no block
HeaderReads ==
    /\ [](/\ gen.pc = "done" => gen.header = 0
          /\ gen.header \in {1, 2} => gen.pc = "failed")
    /\ [][ (last'.op = "next" /\ gen'.header \in {1, 2})
              => (last'.exc = "StructError" /\ Len(blocks') = Len(blocks)) ]_vars

\* C20 as stated: the iteration eventually ends; it ends normally only on
\* a header read that returns no byte; and when it has ended normally the
\* cursor is at the end of the stream.
C20_EndsAtEndOfStream ==
    /\ []Advances
    /\ Running ~> Ended
    /\ HeaderReads
    /\ []((last.op = "next" /\ gen.pc = "done") => pos = Len(file))

\* C20: the iteration eventually ends; it ends normally only on a header
\* read that returns no byte; and when it has ended normally the cursor is
\* at the end of the stream or beyond it: at the end of the stream on a
\* pipe and on a file whose blocks are complete, and at the offset where
\* the body of the last block would end when that body is cut short.
C20_Terminates ==
    /\ []Advances
    /\ Running ~> Ended
    /\ HeaderReads
    /\ []((last.op = "next" /\ gen.pc = "done")
             => /\ pos >= Len(file)
                /\ (~seekable \/ intact) => pos = Len(file)
                /\ pos > Len(file) => pos = gen.end_of_block)

\* C20 witness: an iteration of a seekable file with two blocks ended
\* normally on an empty header read, the cursor at the end of the file.
C20_Witness ==
    /\ seekable
    /\ last.op = "next"
    /\ gen.pc = "done"
    /\ gen.header = 0
    /\ Len(blocks) = 2
    /\ pos = Len(file)

\* ------------------------------------------------------------------------
\* SegmentEncoder.iter_encode_multiple_segments
\* ------------------------------------------------------------------------
\* The generator is run to its end, as b"".join(...) and list.extend(...)
\* run it: it.chunks are the chunks it has yielded, it.exc the exception
\* that ended it, it.first its local "first".

\* the largest number of segments given at once
MaxSegments == 3

\* segment.start: the first of the points of the segment
segment_start(segment) == segment.points[1]

\* start_emitted leaving "first" as it was
start_emitted_kept(first) == first

\* "first = False" once the start point was yielded
start_emitted(first) == FALSE

\* "if first: yield self.encode_point(segment.start)"; r is the encoded
\* start point
iter_start_point(it, r) ==
    IF ~it.first THEN it
    ELSE IF r.exc # "none" THEN [it EXCEPT !.exc = r.exc]
    ELSE [it EXCEPT !.chunks = Append(@, r.out),
                    !.first = start_emitted(it.first)]

\* "yield self.encode_segment(segment)"; r is the encoded segment
iter_segment(it1, r) ==
    IF it1.exc # "none" THEN it1
    ELSE IF r.exc # "none" THEN [it1 EXCEPT !.exc = r.exc]
    ELSE [it1 EXCEPT !.chunks = Append(@, r.out)]

\* one turn of "for segment in segments"
iter_turn(k, it, segment) ==
    iter_segment(
        iter_start_point(it, encode_point(k, segment_start(segment), 0)),
        encode_segment(k, segment))

\* "for segment in segments", ended by the first exception: the turns of
\* the first half of the segments, then those of the second
RECURSIVE iter_loop(_, _, _)
iter_loop(k, it, rest) ==
    IF rest = <<>> \/ it.exc # "none" THEN it
    ELSE IF Len(rest) = 1 THEN iter_turn(k, it, rest[1])
    ELSE iter_loop(k, iter_loop(k, it, SubSeq(rest, 1, Len(rest) \div 2)),
                   SubSeq(rest, Len(rest) \div 2 + 1, Len(rest)))

\* iter_encode_multiple_segments(segments), run to its end
iter_encode_multiple_segments(k, segs) ==
    iter_loop(k, [first |-> TRUE, chunks |-> <<>>, exc |-> "none"], segs)

\* the segments of the trajectories: a constant one, a line, a cubic
\* curve, a line that lasts too long, a curve of an unsupported degree,
\* and a line whose start point is out of range at scale 1
TrajectorySegments ==
    { [points |-> << <<0, 0, 0>>, <<0, 0, 0>> >>, duration |-> 258],
      [points |-> << <<0, 0, 0>>, <<0, 7, 0 - 1>> >>, duration |-> 0],
      [points |-> << <<0, 7, 0 - 1>>, <<0, 0, 0>>, <<0 - 32768, 7, 32767>>,
                     <<0, 0, 0>> >>, duration |-> 65535],
      [points |-> << <<0, 0, 0>>, <<0, 7, 0 - 1>> >>, duration |-> 65536],
      [points |-> << <<0, 0, 0>>, <<0, 7, 0 - 1>>, <<0 - 32768, 7, 32767>>,
                     <<0, 0, 0>>, <<0, 7, 0 - 1>> >>, duration |-> 258],
      [points |-> << <<32768, 0 - 32768, 7>>, <<0, 0, 0>> >>, duration |-> 258] }

\* the sequences of segments given at once
SegmentLists == UNION { [1..n -> TrajectorySegments] : n \in 0..MaxSegments }

\* an encoder and a sequence of segments to encode
InitMulti ==
    /\ InitInstance([data |-> SKYBRUSH_BINARY_FILE_HEADER(1), blocks |-> <<>>,
                     intact |-> TRUE, finalized |-> FALSE], TRUE, 0)
    /\ scale \in Scales
    /\ segments \in SegmentLists
    /\ encoded = NoEncoding

\* chunks = list(encoder.iter_encode_multiple_segments(segments))
EncodeMultiple ==
    \E r \in { iter_encode_multiple_segments(scale, segments) } :
       /\ encoded' = [op |-> "iter_encode_multiple_segments",
                      exc |-> r.exc, chunks |-> r.chunks]
       /\ UNCHANGED << file, pos, seekable, version, features,
                       start_of_crc_bytes, start_of_first_block,
                       checksum_validated, gen, blocks, made, written,
                       intact, finalized, reopened, tampered, last, scale,
                       segments >>

NextMulti ==
    \/ EncodeMultiple

\* encoding sequences of segments
SpecMulti == InitMulti /\ [][NextMulti]_vars

\* the chunks of the claim: the start point of segment 0 with yaw 0, then
\* every segment in input order
ExpectedChunks ==
    << encode_point(scale, segment_start(segments[1]), 0).out >>
    \o [i \in 1..Len(segments) |-> encode_segment(scale, segments[i]).out]

\* the segments that encode_segment encodes, and the start point of the
\* first one
Encodable(n) ==
    /\ encode_point(scale, segment_start(segments[1]), 0).exc = "none"
    /\ \A i \in 1..n : encode_segment(scale, segments[i]).exc = "none"

\* C21: iter_encode_multiple_segments yields no chunk for no segment; for
\* N >= 1 segments it yields exactly N + 1 chunks, the encoded start point
\* of segment 0 with yaw 0 and then encode_segment of segments 0..N-1 in
\* input order, and no other start point; when an encoding raises, the
\* chunks yielded before the exception are the first ones of that list.
C21_Chunks ==
    encoded.op = "iter_encode_multiple_segments" =>
        /\ segments = <<>> => (encoded.chunks = <<>> /\ encoded.exc = "none")
        /\ (segments # <<>> /\ encoded.exc = "none") =>
              /\ Len(encoded.chunks) = Len(segments) + 1
              /\ encoded.chunks = ExpectedChunks
        /\ (segments # <<>>) =>
              (encoded.exc = "none" <=> Encodable(Len(segments)))
        /\ (segments # <<>> /\ encoded.exc # "none") =>
              /\ Len(encoded.chunks) <= Len(segments)
              /\ Len(encoded.chunks) > 0 =>
                    /\ Encodable(Len(encoded.chunks) - 1)
                    /\ encoded.chunks
                          = SubSeq(ExpectedChunks, 1, Len(encoded.chunks))

\* C21 witness: three segments were encoded into four chunks, the first
\* of 8 bytes (a point), and the first segment does not start where the
\* second does.
C21_Witness ==
    /\ encoded.op = "iter_encode_multiple_segments"
    /\ encoded.exc = "none"
    /\ Len(segments) = 3
    /\ Len(encoded.chunks) = 4
    /\ Len(encoded.chunks[1]) = 8
    /\ segment_start(segments[1]) # segment_start(segments[2])

\* ------------------------------------------------------------------------
\* finalize() and the stored checksum field
\* ------------------------------------------------------------------------
\* the contents the checksum field is given
StoredFields == { <<0, 0, 0, 0>>, <<1, 2, 3, 4>>, <<255, 255, 255, 255>> }

\* the header of the instance is parsed, it declares a checksum, and the
\* checksum field is stored in full
HasStoredCrc ==
    /\ seekable
    /\ version = 2
    /\ HasCRC32(features)
    /\ start_of_crc_bytes # None
    /\ Len(file) >= start_of_crc_bytes + 4

\* the file with its checksum field holding v
WithStoredField(v) ==
    [i \in 1..Len(file) |->
        IF i - 1 \in CrcField THEN v[i - start_of_crc_bytes] ELSE file[i]]

\* the expected checksum does not depend on the stored field
FieldIgnored ==
    HasStoredCrc =>
        \A v \in StoredFields :
            /\ get_expected_crc32([Self EXCEPT !.file = WithStoredField(v)]).exc
                  = "none"
            /\ get_expected_crc32([Self EXCEPT !.file = WithStoredField(v)]).data
                  = get_expected_crc32(Self).data

\* C22: for a CRC32 file the expected checksum is the same whatever four
\* bytes the checksum field holds; a finalize() changes no byte of the
\* file other than the four bytes of the checksum field, and the length of
\* the file not at all; and a finalize() that follows a finalize() leaves
\* the bytes of the file as they are.
C22_FinalizeIdempotent ==
    /\ []FieldIgnored
    /\ [][ /\ last'.op = "finalize" =>
                /\ Len(file') = Len(file)
                /\ \A i \in 1..Len(file) :
                      file'[i] # file[i] =>
                          /\ HasCRC32(features')
                          /\ i - 1 \in start_of_crc_bytes'
                                       .. start_of_crc_bytes' + 3
           /\ (last.op = "finalize" /\ last'.op = "finalize") => file' = file
         ]_vars

\* C22 witness: finalize() has stored the checksum of a CRC32 file with a
\* block over a field that held another value, and the field is not zero.
C22_Witness ==
    /\ HasStoredCrc
    /\ last.op = "finalize"
    /\ last.exc = "none"
    /\ Len(written) > 0
    /\ SubSeq(file, start_of_crc_bytes + 1, start_of_crc_bytes + 4)
          = get_expected_crc32(Self).data
    /\ get_expected_crc32(Self).data # <<0, 0, 0, 0>>

\* ------------------------------------------------------------------------
\* add_trajectory
\* ------------------------------------------------------------------------
\* A trajectory is given by what its two methods return: scale is
\* trajectory.propose_scaling_factor(), segments is
\* trajectory.iter_segments(max_length=65, absolute=True).

\* SkybrushBinaryFormatBlockType.TRAJECTORY
TRAJECTORY == 1

\* the first scaling factor that does not fit 7 bits
ScalingFactorLimit == 128

\* trajectory_body without the scaling factor
trajectory_body_bare(k, chunks) == join(chunks)

\* b"".join(chunks) for chunks = [bytes([scaling_factor])] extended with
\* the chunks of the encoder
trajectory_body(k, chunks) == << k >> \o join(chunks)

\* add_trajectory: the encoder's generator was run to its end
add_trajectory_block(s, k, it) ==
    IF it.exc # "none" THEN [s EXCEPT !.exc = it.exc]
    ELSE add_block(s, TRAJECTORY, trajectory_body(k, it.chunks))

\* add_trajectory(trajectory)
add_trajectory(s, k, segs) ==
    IF k >= ScalingFactorLimit THEN [s EXCEPT !.exc = "RuntimeError"]
    ELSE add_trajectory_block(s, k, iter_encode_multiple_segments(k, segs))

\* the proposed scaling factors
TrajectoryScales == {1, 2, 127, 128}

\* the number of 7D segments of the long trajectory
LongLength == 1456

\* a trajectory whose body takes exactly 65536 bytes at every scale: the
\* scaling factor, the start point, LongLength 7D segments of 45 bytes and
\* a line of 7 bytes
LongTrajectory ==
    [i \in 1..LongLength |->
        [points |-> << <<0, 0, 0>>, <<1000, 0 - 1000, 1000>>, <<0, 0, 0>>,
                       <<1000, 0 - 1000, 1000>>, <<0, 0, 0>>,
                       <<1000, 0 - 1000, 1000>>, <<0, 0, 0>>,
                       <<1000, 0 - 1000, 1000>> >>,
         duration |-> 258]]
    \o << [points |-> << <<1000, 0 - 1000, 1000>>, <<1000, 0, 0>> >>,
           duration |-> 0] >>

\* what iter_segments returns: the sequences of fewer than MaxSegments
\* segments, and the long one
TrajectoryLists ==
    { segs \in SegmentLists : Len(segs) < MaxSegments } \cup { LongTrajectory }

\* a new file and a trajectory to add to it
InitTraj ==
    /\ \E f \in NewFiles : InitInstance(f, TRUE, 0)
    /\ scale \in TrajectoryScales
    /\ segments \in TrajectoryLists
    /\ encoded = NoEncoding

\* await show.add_trajectory(trajectory)
AddTrajectory ==
    /\ Len(written) < MaxBlocks
    /\ \E s \in { add_trajectory(Self, scale, segments) } :
       LET ok == s.exc = "none"
       IN  /\ Commit(s)
           /\ last' = Outcome("add_trajectory", s)
           /\ written' =
                 IF ok
                 THEN Append(written,
                             [type |-> TRAJECTORY,
                              body |-> SubSeq(s.file,
                                              Len(file) + HeaderStructSize + 1,
                                              Len(s.file))])
                 ELSE written
           /\ intact' = (intact /\ (~ok \/ pos = Len(file) \/ seekable))
           /\ finalized' = (finalized /\ ~ok)
           /\ tampered' = IF ok THEN None ELSE tampered
           /\ UNCHANGED << gen, blocks, made, reopened,
                           scale, segments, encoded >>

NextTraj ==
    \/ AddTrajectory
    \/ Rewind

\* adding trajectories to a new file
SpecTraj == InitTraj /\ [][NextTraj]_vars

\* the body the claim describes: the scaling factor, then the encoded
\* start point and segments
ExpectedBody ==
    << scale >> \o (IF segments = <<>> THEN <<>> ELSE join(ExpectedChunks))

\* the trajectory is one that add_trajectory stores
Storable ==
    /\ scale < 128
    /\ segments # <<>> => Encodable(Len(segments))
    /\ Len(ExpectedBody) < 65536

\* C23: add_trajectory either appends exactly one TRAJECTORY block whose
\* body is the scaling factor, a byte below 128, followed by the encoded
\* start point and segments, or raises and leaves the bytes of the file
\* as they were; it raises exactly when the scaling factor is 128 or more,
\* an encoding raises (duration out of range, unsupported coordinate
\* count, coordinate out of range) or the body takes 65536 bytes or more.
C23_AllOrNothing ==
    [][ last'.op = "add_trajectory" =>
           /\ last'.exc = "none" <=> Storable
           /\ last'.exc = "none" =>
                 /\ ExpectedBody[1] < 128
                 /\ file' = file \o << TRAJECTORY, Len(ExpectedBody) % 256,
                                      Len(ExpectedBody) \div 256 >>
                                 \o ExpectedBody
           /\ last'.exc # "none" => file' = file
      ]_vars

\* C23 witness: a trajectory of two segments was stored with scaling
\* factor 2 as the second block of the file.
C23_Witness ==
    /\ last.op = "add_trajectory"
    /\ last.exc = "none"
    /\ scale = 2
    /\ Len(segments) = 2
    /\ Len(written) = 2
    /\ written[2].type = TRAJECTORY
    /\ written[2].body[1] = 2
    /\ Len(written[2].body) > 9

====
